---- MODULE Spec2Model ----
(***************************************************************************)
(* A model of lib/iris/fileformats/grib/_message.py: the raw GRIB message  *)
(* reader (_RawGribMessage) and the grid view over it (_GribMessage).      *)
(*                                                                         *)
(* The decoding library (gribapi) is the environment.  For each message    *)
(* handle it holds the key stream of the message and, for every key        *)
(* occurrence, what its decode calls answer.  One operation of the two     *)
(* classes is one action; a property access runs to completion (Python is  *)
(* single threaded and no method yields to a caller).                      *)
(***************************************************************************)
EXTENDS Integers, Sequences, FiniteSets, TLC

VARIABLES
    msg,       \* gribapi: handle -> key stream with the decoder's answers
    reader,    \* handle -> the _RawGribMessage built over it (and its view)
    objs,      \* the mapping objects returned by _get_message_sections
    released,  \* gribapi: handle -> number of grib_release calls
    nparsed,   \* handle -> number of completed _get_message_sections runs
    failed,    \* handle -> a _get_message_sections run has raised
    last       \* what the last operation did and gave back

vars == <<msg, reader, objs, released, nparsed, failed, last>>

-----------------------------------------------------------------------------
(* Bounds of the model.                                                    *)

MaxLen == 3          \* keys in a key stream (specifications Spec, SpecKeys)
MaxReaders == 2      \* handles / readers (specification SpecRelease)
MaxNj == 2           \* rows of a grid (SpecGrid, SpecAlias)
MaxNi == 3           \* columns of a grid (SpecGrid, SpecAlias)
MaxOrderLen == 6     \* keys in a key stream (specification SpecOrder)
MaxDecodeLen == 2    \* keys in a key stream (specification SpecDecode)

-----------------------------------------------------------------------------
(* Python values.                                                          *)

\* self._sections = None: the reference that points at no mapping object.
None == 0

\* The answers of a gribapi decode call: a value, or a GribInternalError
\* with one of these messages.
OK == "ok"
TOO_SMALL == "Passed array is too small"
NOT_FOUND == "Key/value not found"
OTHER_ERROR == "Wrong message length"

-----------------------------------------------------------------------------
(* collections.OrderedDict, as the sequence of its items in insertion      *)
(* order.  An item is a record with the fields k (key) and v (value); the  *)
(* items of a section also carry pos, the place in the key stream of the   *)
(* key occurrence that wrote them (a history annotation, not Python state).*)

OdHas(od, key) == \E i \in 1..Len(od) : od[i].k = key

OdGet(od, key) == od[CHOOSE i \in 1..Len(od) : od[i].k = key].v

OdKeys(od) == {od[i].k : i \in 1..Len(od)}

\* OdSet, but a key already there is moved to the end.
OdSet_move_to_end(od, item) ==
    Append(SelectSeq(od, LAMBDA x : x.k # item.k), item)

\* od[item.k] = item.v: a key already there keeps its place, a new one is
\* appended.
OdSet(od, item) ==
    IF OdHas(od, item.k)
    THEN [i \in 1..Len(od) |-> IF od[i].k = item.k THEN item ELSE od[i]]
    ELSE Append(od, item)

-----------------------------------------------------------------------------
(* _RawGribMessage                                                         *)

\* The key names 'section<N>Length' for N = 0..9, at index N + 1.
SectionLengthKeys ==
    << "section0Length", "section1Length", "section2Length", "section3Length",
       "section4Length", "section5Length", "section6Length", "section7Length",
       "section8Length", "section9Length" >>

\* re.match(_NEW_SECTION_KEY_MATCHER, key_name): the set holding int(group(1))
\* when the key matches, the empty set when it does not (None).
NEW_SECTION_KEY_MATCHER(key_name) ==
    {n \in 0..9 : SectionLengthKeys[n + 1] = key_name}

ARRAY_KEYS == {"codedValues", "values", "pv"}

INT_KEYS == {"typeOfFirstFixedSurface", "typeOfSecondFixedSurface"}

\* FirstCall, but the two fixed surface keys get the default scalar decode.
FirstCall_no_int(key) ==
    IF key \in ARRAY_KEYS THEN "grib_get_array" ELSE "grib_get"

\* The gribapi call _get_key_value issues first for a key.
FirstCall(key) ==
    IF key \in ARRAY_KEYS THEN "grib_get_array"
    ELSE IF key \in INT_KEYS THEN "grib_get_int"
    ELSE "grib_get"

\* _get_key_value for the key occurrence e of the stream.  e.first is the
\* answer of the first call, e.retry the answer of grib_get_array when it is
\* called from the except clause, e.val the value a scalar or first decode
\* gives and <<e.val>> what the array decode of a key outside ARRAY_KEYS gives.
\* An exception raised by the call inside the except clause is not handled
\* there: it leaves _get_key_value as the GribInternalError it is.
get_key_value(e) ==
    IF e.first = OK
    THEN [outcome |-> "return", value |-> e.val, err |-> "",
          calls |-> <<FirstCall(e.name)>>]
    ELSE IF e.first = TOO_SMALL
    THEN IF e.retry = OK
         THEN [outcome |-> "return",
               value |-> IF e.name \in ARRAY_KEYS THEN e.val ELSE <<e.val>>,
               err |-> "",
               calls |-> <<FirstCall(e.name), "grib_get_array">>]
         ELSE [outcome |-> "GribInternalError", value |-> None,
               err |-> e.retry,
               calls |-> <<FirstCall(e.name), "grib_get_array">>]
    ELSE IF e.first = NOT_FOUND
    THEN [outcome |-> "KeyError", value |-> None, err |-> e.first,
          calls |-> <<FirstCall(e.name)>>]
    ELSE [outcome |-> "GribInternalError", value |-> None, err |-> e.first,
          calls |-> <<FirstCall(e.name)>>]

\* The gribapi calls `calls` that _get_key_value made for the key named
\* key_name at place i of the stream, as records that name the key and the
\* place (the place is a history annotation).
Calls(i, key_name, calls) ==
    [c \in 1..Len(calls) |-> [at |-> i, key |-> key_name, call |-> calls[c]]]

\* The locals of _get_message_sections before the loop.
LoopInit ==
    [sections |-> <<>>, section |-> 0, new_section |-> 0,
     section_keys |-> <<>>, outcome |-> "running", err |-> "",
     calls |-> <<>>, at |-> 0]

\* new_section after the two tests on the key name.
NewSection(st, key_name) ==
    IF NEW_SECTION_KEY_MATCHER(key_name) # {}
    THEN CHOOSE n \in NEW_SECTION_KEY_MATCHER(key_name) : TRUE
    ELSE IF key_name = "7777" THEN 8
    ELSE st.new_section

\* if section != new_section: sections[section] = section_keys and a new,
\* empty section_keys.
Flush(st, new_section) ==
    IF st.section # new_section
    THEN [st EXCEPT
            !.sections = OdSet(st.sections,
                               [k |-> st.section, v |-> st.section_keys]),
            !.section_keys = <<>>,
            !.new_section = new_section]
    ELSE [st EXCEPT !.new_section = new_section]

\* Store, but a key without value is kept with the placeholder None instead
\* of being left out.
Store_placeholder(st, i, key_name, res) ==
    IF key_name = "numberOfSection"
    THEN [st EXCEPT
            !.section_keys =
                OdSet(st.section_keys,
                      [k |-> key_name, v |-> st.section, pos |-> i]),
            !.section = st.new_section,
            !.at = i]
    ELSE IF res.outcome \in {"return", "KeyError"}
    THEN [st EXCEPT
            !.section_keys =
                OdSet(st.section_keys,
                      [k |-> key_name, v |-> res.value, pos |-> i]),
            !.section = st.new_section,
            !.calls = st.calls \o Calls(i, key_name, res.calls),
            !.at = i]
    ELSE [st EXCEPT
            !.outcome = res.outcome,
            !.err = res.err,
            !.calls = st.calls \o Calls(i, key_name, res.calls),
            !.at = i]

\* The rest of the pass, with the answer res of _get_key_value.
Store(st, i, key_name, res) ==
    IF key_name = "numberOfSection"
    THEN [st EXCEPT
            !.section_keys =
                OdSet(st.section_keys,
                      [k |-> key_name, v |-> st.section, pos |-> i]),
            !.section = st.new_section,
            !.at = i]
    ELSE IF res.outcome = "return"
    THEN [st EXCEPT
            !.section_keys =
                OdSet(st.section_keys,
                      [k |-> key_name, v |-> res.value, pos |-> i]),
            !.section = st.new_section,
            !.calls = st.calls \o Calls(i, key_name, res.calls),
            !.at = i]
    ELSE IF res.outcome = "KeyError"
    THEN \* continue: the assignment section = new_section is skipped
         [st EXCEPT !.calls = st.calls \o Calls(i, key_name, res.calls), !.at = i]
    ELSE [st EXCEPT
            !.outcome = res.outcome,
            !.err = res.err,
            !.calls = st.calls \o Calls(i, key_name, res.calls),
            !.at = i]

\* One pass of the for loop of _get_message_sections, for the key at place i
\* of the stream m.
LoopBody(st, i, m) ==
    Store(Flush(st, NewSection(st, m[i].name)), i, m[i].name,
          get_key_value(m[i]))

RECURSIVE Loop(_, _, _)
Loop(st, i, m) ==
    IF i > Len(m) \/ st.outcome # "running"
    THEN st
    ELSE Loop(LoopBody(st, i, m), i + 1, m)

\* _get_message_keys, driven by the loop of _get_message_sections up to and
\* including the key at place `at` (Len(m) + 1: the generator was run to its
\* end).  The generator creates the iterator when it is first resumed and
\* deletes it only in the code after its while loop, which runs when
\* grib_keys_iterator_next answers false.
get_message_keys(m, at) ==
    [iter_new |-> 1,
     iter_next |-> at,
     iter_del |-> IF at > Len(m) THEN 1 ELSE 0]

\* get_message_sections, but without the write of the last section's
\* dictionary after the loop.
get_message_sections_no_last_write(m) ==
    LET st == Loop(LoopInit, 1, m)
    IN  IF st.outcome = "running"
        THEN [outcome |-> "return",
              sections |-> st.sections,
              err |-> "",
              calls |-> st.calls,
              keys |-> get_message_keys(m, Len(m) + 1)]
        ELSE [outcome |-> st.outcome,
              sections |-> <<>>,
              err |-> st.err,
              calls |-> st.calls,
              keys |-> get_message_keys(m, st.at)]

\* _get_message_sections on the key stream m.
get_message_sections(m) ==
    LET st == Loop(LoopInit, 1, m)
    IN  IF st.outcome = "running"
        THEN [outcome |-> "return",
              sections |-> OdSet(st.sections,
                                 [k |-> st.section, v |-> st.section_keys]),
              err |-> "",
              calls |-> st.calls,
              keys |-> get_message_keys(m, Len(m) + 1)]
        ELSE [outcome |-> st.outcome,
              sections |-> <<>>,
              err |-> st.err,
              calls |-> st.calls,
              keys |-> get_message_keys(m, st.at)]


\* sections, but without the test of self._sections: every call parses.
sections_recompute(h) ==
    LET p == get_message_sections(msg[h])
    IN  IF p.outcome = "return"
        THEN [outcome |-> "return", value |-> Len(objs) + 1,
              err |-> "", calls |-> p.calls, keys |-> p.keys,
              parsed |-> 1, raised |-> FALSE,
              objs |-> Append(objs, p.sections)]
        ELSE [outcome |-> p.outcome, value |-> None, err |-> p.err,
              calls |-> p.calls, keys |-> p.keys,
              parsed |-> 0, raised |-> TRUE, objs |-> objs]

\* sections, but a parse that raises leaves the sections collected so far
\* (here: an empty mapping) in self._sections.
sections_partial(h) ==
    IF reader[h]._sections # None
    THEN [outcome |-> "return", value |-> reader[h]._sections, err |-> "",
          calls |-> <<>>,
          keys |-> [iter_new |-> 0, iter_next |-> 0, iter_del |-> 0],
          parsed |-> 0, raised |-> FALSE, objs |-> objs]
    ELSE LET p == get_message_sections(msg[h])
         IN  IF p.outcome = "return"
             THEN [outcome |-> "return", value |-> Len(objs) + 1,
                   err |-> "", calls |-> p.calls, keys |-> p.keys,
                   parsed |-> 1, raised |-> FALSE,
                   objs |-> Append(objs, p.sections)]
             ELSE [outcome |-> p.outcome, value |-> Len(objs) + 1,
                   err |-> p.err, calls |-> p.calls, keys |-> p.keys,
                   parsed |-> 0, raised |-> TRUE,
                   objs |-> Append(objs, <<>>)]

\* The sections property of the reader of handle h: what it gives back, the
\* value of self._sections after it, and the mapping objects after it.
sections(h) ==
    IF reader[h]._sections # None
    THEN [outcome |-> "return", value |-> reader[h]._sections, err |-> "",
          calls |-> <<>>,
          keys |-> [iter_new |-> 0, iter_next |-> 0, iter_del |-> 0],
          parsed |-> 0, raised |-> FALSE, objs |-> objs]
    ELSE LET p == get_message_sections(msg[h])
         IN  IF p.outcome = "return"
             THEN [outcome |-> "return", value |-> Len(objs) + 1,
                   err |-> "", calls |-> p.calls, keys |-> p.keys,
                   parsed |-> 1, raised |-> FALSE,
                   objs |-> Append(objs, p.sections)]
             ELSE [outcome |-> p.outcome, value |-> None, err |-> p.err,
                   calls |-> p.calls, keys |-> p.keys,
                   parsed |-> 0, raised |-> TRUE, objs |-> objs]

-----------------------------------------------------------------------------
(* _GribMessage                                                            *)

\* reshape, but filling the grid column by column (Fortran order).
reshape_column_major(a, nj, ni) ==
    IF Len(a) = nj * ni
    THEN [outcome |-> "return",
          value |-> [j \in 1..nj |-> [i \in 1..ni |-> a[(i - 1) * nj + j]]],
          err |-> ""]
    ELSE [outcome |-> "ValueError", value |-> None,
          err |-> "total size of new array must be unchanged"]

\* numpy.ndarray.reshape(nj, ni) of the flat array a, in C (row-major) order:
\* a sequence of nj rows of ni elements; ValueError when the sizes differ.
reshape(a, nj, ni) ==
    IF Len(a) = nj * ni
    THEN [outcome |-> "return",
          value |-> [j \in 1..nj |-> [i \in 1..ni |-> a[(j - 1) * ni + i]]],
          err |-> ""]
    ELSE [outcome |-> "ValueError", value |-> None,
          err |-> "total size of new array must be unchanged"]

\* d[key] of a dict that may lack the key.
KeyError(key) == [outcome |-> "KeyError", value |-> key, err |-> "KeyError"]

TranslationError(text, value) ==
    [outcome |-> "TranslationError", value |-> value, err |-> text]

\* data, but with the test of the template number ahead of the other two.
data_template_first(s) ==
    IF ~OdHas(s, 3) THEN KeyError(3)
    ELSE LET grid_section == OdGet(s, 3)
             has(key) == OdHas(grid_section, key)
             get(key) == OdGet(grid_section, key)
         IN
    IF ~has("gridDefinitionTemplateNumber")
    THEN KeyError("gridDefinitionTemplateNumber")
    ELSE IF get("gridDefinitionTemplateNumber") # 0
    THEN TranslationError("Grid definition template is not supported",
                          get("gridDefinitionTemplateNumber"))
    ELSE IF ~has("sourceOfGridDefinition")
    THEN KeyError("sourceOfGridDefinition")
    ELSE IF get("sourceOfGridDefinition") # 0
    THEN TranslationError("Unsupported source of grid definition",
                          get("sourceOfGridDefinition"))
    ELSE IF ~has("numberOfOctectsForNumberOfPoints")
    THEN KeyError("numberOfOctectsForNumberOfPoints")
    ELSE IF get("numberOfOctectsForNumberOfPoints") # 0
    THEN TranslationError("unsupported quasi-regular grid", None)
    ELSE IF ~has("interpretationOfNumberOfPoints")
    THEN KeyError("interpretationOfNumberOfPoints")
    ELSE IF get("interpretationOfNumberOfPoints") # 0
    THEN TranslationError("unsupported quasi-regular grid", None)
    ELSE IF ~OdHas(s, 7) THEN KeyError(7)
    ELSE IF ~OdHas(OdGet(s, 7), "codedValues") THEN KeyError("codedValues")
    ELSE IF ~has("Nj") THEN KeyError("Nj")
    ELSE IF ~has("Ni") THEN KeyError("Ni")
    ELSE reshape(OdGet(OdGet(s, 7), "codedValues"), get("Nj"), get("Ni"))

\* The body of the data property after `sections = self.sections`, on the
\* mapping s.  The subscriptions are evaluated in the order of the code, and
\* the first one that fails, or the first check that fails, ends it.
data(s) ==
    IF ~OdHas(s, 3) THEN KeyError(3)
    ELSE LET grid_section == OdGet(s, 3)
             has(key) == OdHas(grid_section, key)
             get(key) == OdGet(grid_section, key)
         IN
    IF ~has("sourceOfGridDefinition")
    THEN KeyError("sourceOfGridDefinition")
    ELSE IF get("sourceOfGridDefinition") # 0
    THEN TranslationError("Unsupported source of grid definition",
                          get("sourceOfGridDefinition"))
    ELSE IF ~has("numberOfOctectsForNumberOfPoints")
    THEN KeyError("numberOfOctectsForNumberOfPoints")
    ELSE IF get("numberOfOctectsForNumberOfPoints") # 0
    THEN TranslationError("unsupported quasi-regular grid", None)
    ELSE IF ~has("interpretationOfNumberOfPoints")
    THEN KeyError("interpretationOfNumberOfPoints")
    ELSE IF get("interpretationOfNumberOfPoints") # 0
    THEN TranslationError("unsupported quasi-regular grid", None)
    ELSE IF ~has("gridDefinitionTemplateNumber")
    THEN KeyError("gridDefinitionTemplateNumber")
    ELSE IF get("gridDefinitionTemplateNumber") # 0
    THEN TranslationError("Grid definition template is not supported",
                          get("gridDefinitionTemplateNumber"))
    ELSE IF ~OdHas(s, 7) THEN KeyError(7)
    ELSE IF ~OdHas(OdGet(s, 7), "codedValues") THEN KeyError("codedValues")
    ELSE IF ~has("Nj") THEN KeyError("Nj")
    ELSE IF ~has("Ni") THEN KeyError("Ni")
    ELSE reshape(OdGet(OdGet(s, 7), "codedValues"), get("Nj"), get("Ni"))

-----------------------------------------------------------------------------
(* The operations.                                                         *)

Handles == DOMAIN msg

NoKeys == [iter_new |-> 0, iter_next |-> 0, iter_del |-> 0]

\* The record of an operation: op on the reader of handle h ended with
\* outcome ("return" or the exception), gave back value, and made the decode
\* calls `calls` and the key iterator calls `keys`.  tick tells two
\* consecutive operations apart.
Done(op, h, outcome, value, err, calls, keys) ==
    [op |-> op, h |-> h, outcome |-> outcome, value |-> value, err |-> err,
     calls |-> calls, keys |-> keys, tick |-> 1 - last.tick]

\* _RawGribMessage(message_id): __init__.
RawGribMessageInit(h) ==
    /\ reader[h].state = "unborn"
    /\ reader' = [reader EXCEPT ![h] =
                    [state |-> "alive", _message_id |-> h,
                     _sections |-> None, view |-> FALSE]]
    /\ last' = Done("RawGribMessage", h, "return", None, "", <<>>, NoKeys)
    /\ UNCHANGED <<msg, objs, released, nparsed, failed>>

\* _GribMessage(raw_message): __init__.
GribMessageInit(h) ==
    /\ reader[h].state = "alive"
    /\ ~reader[h].view
    /\ reader' = [reader EXCEPT ![h].view = TRUE]
    /\ last' = Done("GribMessage", h, "return", None, "", <<>>, NoKeys)
    /\ UNCHANGED <<msg, objs, released, nparsed, failed>>

\* raw_message.sections, or message.sections which delegates to it.
Sections(h) ==
    /\ reader[h].state = "alive"
    /\ LET r == sections(h)
       IN  /\ reader' = [reader EXCEPT ![h]._sections = r.value]
           /\ objs' = r.objs
           /\ nparsed' = [nparsed EXCEPT ![h] = @ + r.parsed]
           /\ failed' = [failed EXCEPT ![h] = @ \/ r.raised]
           /\ last' = Done("sections", h, r.outcome, r.value, r.err,
                           r.calls, r.keys)
    /\ UNCHANGED <<msg, released>>

\* Data, but a failed validation drops the cached mapping of the reader.
Data_drops_cache(h) ==
    /\ reader[h].state = "alive"
    /\ reader[h].view
    /\ LET r == sections(h)
           d == IF r.outcome = "return"
                THEN data(r.objs[r.value])
                ELSE [outcome |-> r.outcome, value |-> None, err |-> r.err]
       IN  /\ reader' = [reader EXCEPT
                           ![h]._sections =
                               IF d.outcome = "TranslationError"
                               THEN None ELSE r.value]
           /\ objs' = r.objs
           /\ nparsed' = [nparsed EXCEPT ![h] = @ + r.parsed]
           /\ failed' = [failed EXCEPT ![h] = @ \/ r.raised]
           /\ last' = Done("data", h, d.outcome, d.value, d.err,
                           r.calls, r.keys)
    /\ UNCHANGED <<msg, released>>

\* message.data.
Data(h) ==
    /\ reader[h].state = "alive"
    /\ reader[h].view
    /\ LET r == sections(h)
           d == IF r.outcome = "return"
                THEN data(r.objs[r.value])
                ELSE [outcome |-> r.outcome, value |-> None, err |-> r.err]
       IN  /\ reader' = [reader EXCEPT ![h]._sections = r.value]
           /\ objs' = r.objs
           /\ nparsed' = [nparsed EXCEPT ![h] = @ + r.parsed]
           /\ failed' = [failed EXCEPT ![h] = @ \/ r.raised]
           /\ last' = Done("data", h, d.outcome, d.value, d.err,
                           r.calls, r.keys)
    /\ UNCHANGED <<msg, released>>

\* Del, but the handle is released only when the sections were parsed.
Del_if_parsed(h) ==
    /\ reader[h].state = "alive"
    /\ released' = [released EXCEPT
                      ![h] = IF reader[h]._sections # None THEN @ + 1 ELSE @]
    /\ reader' = [reader EXCEPT ![h].state = "dead"]
    /\ last' = Done("del", h, "return", None, "", <<>>, NoKeys)
    /\ UNCHANGED <<msg, objs, nparsed, failed>>

\* __del__ of the reader, run when the reader (and the view that holds it)
\* is no longer referenced.
Del(h) ==
    /\ reader[h].state = "alive"
    /\ released' = [released EXCEPT ![h] = @ + 1]
    /\ reader' = [reader EXCEPT ![h].state = "dead"]
    /\ last' = Done("del", h, "return", None, "", <<>>, NoKeys)
    /\ UNCHANGED <<msg, objs, nparsed, failed>>

\* grid[j][i] = 0 by the caller, on the grid the last data call gave back.
\* data returns codedValues.reshape(Nj, Ni), and reshape of the contiguous
\* one-dimensional array that grib_get_array made is a view: the grid has no
\* elements of its own, an element [j][i] of it is the element
\* (j - 1) * Ni + i of the codedValues array the mapping holds.  Each element
\* is written once (the arrays of the decoder hold no 0).
WriteGrid(h) ==
    /\ reader[h].state = "alive"
    /\ last.op \in {"data", "write"}
    /\ last.h = h
    /\ last.outcome = "return"
    /\ \E j \in 1..Len(last.value) : \E i \in 1..Len(last.value[j]) :
          LET s == objs[reader[h]._sections]
              ni == Len(last.value[j])
              n == CHOOSE n \in 1..Len(s) : s[n].k = 7
              c == CHOOSE c \in 1..Len(s[n].v) : s[n].v[c].k = "codedValues"
          IN  /\ last.value[j][i] # 0
              /\ objs' = [objs EXCEPT
                            ![reader[h]._sections][n].v[c].v[(j - 1) * ni + i]
                                = 0]
              /\ last' = Done("write", h, "return",
                              [last.value EXCEPT ![j][i] = 0], "", <<>>,
                              NoKeys)
    /\ UNCHANGED <<msg, reader, released, nparsed, failed>>

Next ==
    \/ \E h \in Handles : RawGribMessageInit(h)
    \/ \E h \in Handles : GribMessageInit(h)
    \/ \E h \in Handles : Sections(h)
    \/ \E h \in Handles : Data(h)
    \/ \E h \in Handles : Del(h)

-----------------------------------------------------------------------------
(* The messages the decoder holds.                                         *)

Entry(name, first, retry, val) ==
    [name |-> name, first |-> first, retry |-> retry, val |-> val]

\* What a decode of a key occurrence may answer: the answer of the first
\* call and, where the first answer is TOO_SMALL, the answer of the array
\* decode that follows.
Answers ==
    {<<OK, OK>>, <<NOT_FOUND, OK>>, <<OTHER_ERROR, OK>>, <<TOO_SMALL, OK>>,
     <<TOO_SMALL, NOT_FOUND>>, <<TOO_SMALL, OTHER_ERROR>>}

\* The key occurrences of specification Spec.  The decoder would give 9 for
\* every key, numberOfSection included.
ReaderEntries ==
    {Entry(n, a[1], a[2], 9) :
        n \in {"section1Length", "section3Length", "7777", "numberOfSection"},
        a \in {<<OK, OK>>, <<NOT_FOUND, OK>>}}
    \cup {Entry("discipline", a[1], a[2], 9) : a \in Answers}

SeqsUpTo(S, n) == UNION {[1..k -> S] : k \in 0..n}

\* No reader is built yet over the handles.
InitReaders(handles) ==
    /\ reader = [h \in handles |->
                    [state |-> "unborn", _message_id |-> h,
                     _sections |-> None, view |-> FALSE]]
    /\ objs = <<>>
    /\ released = [h \in handles |-> 0]
    /\ nparsed = [h \in handles |-> 0]
    /\ failed = [h \in handles |-> FALSE]
    /\ last = [op |-> "none", h |-> 0, outcome |-> "return", value |-> None,
               err |-> "", calls |-> <<>>, keys |-> NoKeys, tick |-> 0]

\* One reader over one message of up to MaxLen keys.
Init ==
    /\ msg \in [{1} -> SeqsUpTo(ReaderEntries, MaxLen)]
    /\ InitReaders({1})

Spec == Init /\ [][Next]_vars

\* The messages of specification SpecGrid: the keys data reads, in the
\* stream <<section3Length, the six grid keys, section7Length, codedValues>>,
\* with the values c gives them.  codedValues is the array <<1, .., n>> of
\* n = c.nj * c.ni + c.extra elements.
\* Key number c.hole of the stream (none when it is 0) is left out of the
\* stream when c.kind is "absent" and has no value when it is "novalue".
GridStream(c) ==
    << Entry("section3Length", OK, OK, 9),
       Entry("sourceOfGridDefinition", OK, OK, c.src),
       Entry("numberOfOctectsForNumberOfPoints", OK, OK, c.oct),
       Entry("interpretationOfNumberOfPoints", OK, OK, c.int),
       Entry("gridDefinitionTemplateNumber", OK, OK, c.tpl),
       Entry("Nj", OK, OK, c.nj),
       Entry("Ni", OK, OK, c.ni),
       Entry("section7Length", OK, OK, 9),
       Entry("codedValues", OK, OK,
             [k \in 1..(c.nj * c.ni + c.extra) |-> k]) >>

GridMessage(c) ==
    LET b == GridStream(c)
    IN  IF c.hole = 0 THEN b
        ELSE IF c.kind = "novalue"
        THEN [b EXCEPT ![c.hole].first = NOT_FOUND]
        ELSE [i \in 1..(Len(b) - 1) |-> IF i < c.hole THEN b[i] ELSE b[i + 1]]

GridChoices ==
    {c \in [src : {0, 1}, oct : {0, 1}, int : {0, 1}, tpl : {0, 5},
            nj : 1..MaxNj, ni : 1..MaxNi, extra : {0, 1},
            hole : 0..9, kind : {"absent", "novalue"}] :
        c.hole = 0 => c.kind = "novalue"}

\* One reader over one grid message.
InitGrid ==
    /\ \E c \in GridChoices : msg = [h \in {1} |-> GridMessage(c)]
    /\ InitReaders({1})

SpecGrid == InitGrid /\ [][Next]_vars

\* The operations and the writes of a caller to a grid that data gave back.
NextAlias ==
    \/ Next
    \/ \E h \in Handles : WriteGrid(h)

\* One reader over one grid message, and a caller that writes to the grid.
SpecAlias == InitGrid /\ [][NextAlias]_vars

\* The messages of specification SpecRelease: no key, a stream whose parse
\* succeeds, and a stream whose parse raises at its second key.
ReleaseMessages ==
    { <<>>,
      <<Entry("discipline", OK, OK, 9), Entry("section1Length", OK, OK, 9)>>,
      <<Entry("discipline", OK, OK, 9),
        Entry("section1Length", OTHER_ERROR, OK, 9)>> }

\* MaxReaders readers, each over a handle of its own.
InitRelease ==
    /\ msg \in [1..MaxReaders -> ReleaseMessages]
    /\ InitReaders(1..MaxReaders)

SpecRelease == InitRelease /\ [][Next]_vars

\* A decode is made by key name (grib_get(self._message_id, key)), so every
\* occurrence of a name in a stream gets the same answer: the stream of the
\* names ns, where the decoder answers ans[name] and holds the value 9 (the
\* array <<9>> for a key of ARRAY_KEYS) for every name.
KeyStream(ns, ans) ==
    [i \in 1..Len(ns) |->
        Entry(ns[i], ans[ns[i]][1], ans[ns[i]][2],
              IF ns[i] \in ARRAY_KEYS THEN <<9>> ELSE 9)]

\* One reader over one message of up to n keys with names of the set names,
\* the decoder answering each name with one of the set answers.
InitStreams(names, answers, n) ==
    /\ \E ns \in SeqsUpTo(names, n) :
          \E ans \in [{ns[i] : i \in 1..Len(ns)} -> answers] :
              msg = [h \in {1} |-> KeyStream(ns, ans)]
    /\ InitReaders({1})

\* The key names of specification SpecKeys and what the decoder may answer
\* for one: a value, no value, or another error.
KeyNames ==
    {"section1Length", "section3Length", "7777", "numberOfSection",
     "discipline"}

KeyAnswers == {<<OK, OK>>, <<NOT_FOUND, OK>>, <<OTHER_ERROR, OK>>}

InitKeys == InitStreams(KeyNames, KeyAnswers, MaxLen)

SpecKeys == InitKeys /\ [][Next]_vars

\* The key names of specification SpecOrder: two boundary keys and two other
\* keys, all of which the decoder answers with a value.
OrderNames == {"section1Length", "7777", "numberOfSection", "discipline"}

InitOrder == InitStreams(OrderNames, {<<OK, OK>>}, MaxOrderLen)

SpecOrder == InitOrder /\ [][Next]_vars

\* The key names of specification SpecDecode: the keys _get_key_value names,
\* numberOfSection, and one other key.
DecodeNames ==
    ARRAY_KEYS \cup INT_KEYS \cup {"numberOfSection", "discipline"}

InitDecode == InitStreams(DecodeNames, Answers, MaxDecodeLen)

SpecDecode == InitDecode /\ [][Next]_vars

-----------------------------------------------------------------------------
(* The properties.                                                         *)

\* The mapping the reader of handle h has cached (self._sections).
Cached(h) == objs[reader[h]._sections]

\* The places <<n, i>> of the items of the mapping s: item i of its n-th
\* section.
Places(s) == UNION {{<<n, i>> : i \in 1..Len(s[n].v)} : n \in 1..Len(s)}

\* The item at place p of the mapping s, and the number of its section.
Item(s, p) == s[p[1]].v[p[2]]

SectionOf(s, p) == s[p[1]].k

\* The section numbers of the 'section<N>Length' keys of the stream m, and 0:
\* the sections the message encodes.
Encoded(m) ==
    {0} \cup {n \in 0..9 : \E i \in 1..Len(m) : m[i].name = SectionLengthKeys[n + 1]}

IsBoundary(e) ==
    \/ e.name = "7777"
    \/ \E n \in 0..9 : e.name = SectionLengthKeys[n + 1]

BoundaryNumber(e) ==
    IF e.name = "7777" THEN 8
    ELSE CHOOSE n \in 0..9 : e.name = SectionLengthKeys[n + 1]

HasTerminator(m) == \E i \in 1..Len(m) : m[i].name = "7777"

\* The section number detected for place i of the stream m: that of the last
\* boundary key at or before i, 0 when there is none.
Detected(m, i) ==
    LET b == {j \in 1..i : IsBoundary(m[j])}
    IN  IF b = {} THEN 0
        ELSE BoundaryNumber(m[CHOOSE j \in b : \A j2 \in b : j2 <= j])

\* The key occurrence e is stored by the parse: it is numberOfSection, or a
\* decode of it gives a value.
Stored(e) ==
    \/ e.name = "numberOfSection"
    \/ e.first = OK
    \/ e.first = TOO_SMALL /\ e.retry = OK

\* C1: in every returned mapping, a section k that holds the key
\* numberOfSection holds the value k for it.
C1_NumberOfSection ==
    \A h \in Handles :
        reader[h]._sections # None =>
            \A p \in Places(Cached(h)) :
                Item(Cached(h), p).k = "numberOfSection"
                    => Item(Cached(h), p).v = SectionOf(Cached(h), p)

C3_Memoised ==
    /\ [](\A h \in Handles : nparsed[h] <= 1)
    /\ [][\A h \in Handles :
            reader[h]._sections # None =>
                /\ reader'[h]._sections = reader[h]._sections
                /\ objs'[reader[h]._sections] = objs[reader[h]._sections]
                /\ nparsed'[h] = nparsed[h]
                /\ (last'.tick # last.tick /\ last'.h = h
                        /\ last'.op \in {"sections", "data"})
                      => /\ last'.calls = <<>>
                         /\ last'.keys = NoKeys
                /\ (last'.tick # last.tick /\ last'.h = h
                        /\ last'.op = "sections")
                      => /\ last'.outcome = "return"
                         /\ last'.value = reader[h]._sections
         ]_vars

\* C3, witness: a sections call answered from the cache, on a message whose
\* parse made decode calls.
C3_Witness ==
    /\ last.op = "sections"
    /\ last.outcome = "return"
    /\ last.keys = NoKeys
    /\ nparsed[1] = 1
    /\ \E i \in 1..Len(msg[1]) : msg[1][i].name = "discipline"

\* C4: a key occurrence whose decode reports NOT_FOUND leaves no item in the
\* returned mapping.
C4_NoValueKeyAbsent ==
    \A h \in Handles :
        reader[h]._sections # None =>
            \A i \in 1..Len(msg[h]) :
                (msg[h][i].name # "numberOfSection"
                    /\ msg[h][i].first = NOT_FOUND)
                  => \A p \in Places(Cached(h)) :
                        Item(Cached(h), p).pos # i

\* C4, witness: a returned mapping of a stream in which an occurrence of
\* discipline has no value and another occurrence of it is stored.
C4_Witness ==
    /\ reader[1]._sections # None
    /\ \E i \in 1..Len(msg[1]) :
          /\ msg[1][i].name = "discipline"
          /\ msg[1][i].first = NOT_FOUND
    /\ \E p \in Places(Cached(1)) : Item(Cached(1), p).k = "discipline"

\* C5: a NOT_FOUND report of the decoder, from the first decode or from the
\* retry, never leaves sections (or data) as an error.
C5_NoValueNeverSurfaces ==
    (last.op \in {"sections", "data"} /\ last.outcome = "GribInternalError")
        => last.err # NOT_FOUND

\* The grid definition section of a mapping that has one, and its keys.
GridSection(h) == OdGet(Cached(h), 3)

GridHas(h, key) == OdHas(GridSection(h), key)

GridGet(h, key) == OdGet(GridSection(h), key)

\* The last operation was data on the reader of h, its parse succeeded and
\* the mapping has a section 3.
DataOnGrid(h) ==
    /\ last.op = "data"
    /\ last.h = h
    /\ reader[h]._sections # None
    /\ OdHas(Cached(h), 3)

\* C6: data reports the first failing check of section 3, in the order
\* source of grid definition, quasi-regular grid, template number, and the
\* first and the last name the offending value.
C6_ValidationOrder ==
    \A h \in Handles :
        DataOnGrid(h) =>
            /\ (/\ GridHas(h, "sourceOfGridDefinition")
                /\ GridGet(h, "sourceOfGridDefinition") # 0)
                 => /\ last.outcome = "TranslationError"
                    /\ last.err = "Unsupported source of grid definition"
                    /\ last.value = GridGet(h, "sourceOfGridDefinition")
            /\ (/\ GridHas(h, "sourceOfGridDefinition")
                /\ GridGet(h, "sourceOfGridDefinition") = 0
                /\ GridHas(h, "numberOfOctectsForNumberOfPoints")
                /\ GridHas(h, "interpretationOfNumberOfPoints")
                /\ \/ GridGet(h, "numberOfOctectsForNumberOfPoints") # 0
                   \/ GridGet(h, "interpretationOfNumberOfPoints") # 0)
                 => /\ last.outcome = "TranslationError"
                    /\ last.err = "unsupported quasi-regular grid"
            /\ (/\ GridHas(h, "sourceOfGridDefinition")
                /\ GridGet(h, "sourceOfGridDefinition") = 0
                /\ GridHas(h, "numberOfOctectsForNumberOfPoints")
                /\ GridGet(h, "numberOfOctectsForNumberOfPoints") = 0
                /\ GridHas(h, "interpretationOfNumberOfPoints")
                /\ GridGet(h, "interpretationOfNumberOfPoints") = 0
                /\ GridHas(h, "gridDefinitionTemplateNumber")
                /\ GridGet(h, "gridDefinitionTemplateNumber") # 0)
                 => /\ last.outcome = "TranslationError"
                    /\ last.err = "Grid definition template is not supported"
                    /\ last.value = GridGet(h, "gridDefinitionTemplateNumber")

\* C6, witness: data on a section 3 that fails all three checks reports the
\* source of grid definition, 1.
C6_Witness ==
    /\ DataOnGrid(1)
    /\ GridHas(1, "sourceOfGridDefinition")
    /\ GridGet(1, "sourceOfGridDefinition") = 1
    /\ GridHas(1, "numberOfOctectsForNumberOfPoints")
    /\ GridGet(1, "numberOfOctectsForNumberOfPoints") = 1
    /\ GridHas(1, "gridDefinitionTemplateNumber")
    /\ GridGet(1, "gridDefinitionTemplateNumber") = 5
    /\ last.outcome = "TranslationError"
    /\ last.value = 1

\* Section 3 passes the three checks, Nj and Ni are there, and section 7
\* has a codedValues array of Nj * Ni elements.
RegularGrid(h) ==
    /\ DataOnGrid(h)
    /\ \A key \in {"sourceOfGridDefinition",
                   "numberOfOctectsForNumberOfPoints",
                   "interpretationOfNumberOfPoints",
                   "gridDefinitionTemplateNumber"} :
          GridHas(h, key) /\ GridGet(h, key) = 0
    /\ GridHas(h, "Nj")
    /\ GridHas(h, "Ni")
    /\ OdHas(Cached(h), 7)
    /\ OdHas(OdGet(Cached(h), 7), "codedValues")
    /\ Len(OdGet(OdGet(Cached(h), 7), "codedValues"))
          = GridGet(h, "Nj") * GridGet(h, "Ni")

\* C7: on a regular grid data returns Nj rows of Ni elements, and element
\* [j][i] is codedValues[j * Ni + i] (indices from 0).
C7_RowMajor ==
    \A h \in Handles :
        RegularGrid(h) =>
            LET nj == GridGet(h, "Nj")
                ni == GridGet(h, "Ni")
                codedValues == OdGet(OdGet(Cached(h), 7), "codedValues")
            IN  /\ last.outcome = "return"
                /\ Len(last.value) = nj
                /\ \A j \in 0..(nj - 1) :
                      /\ Len(last.value[j + 1]) = ni
                      /\ \A i \in 0..(ni - 1) :
                            last.value[j + 1][i + 1]
                                = codedValues[j * ni + i + 1]

\* C7, witness: Nj = 2, Ni = 3 and codedValues = [1, 2, 3, 4, 5, 6] give
\* [[1, 2, 3], [4, 5, 6]].
C7_Witness ==
    /\ RegularGrid(1)
    /\ GridGet(1, "Nj") = 2
    /\ GridGet(1, "Ni") = 3
    /\ last.outcome = "return"
    /\ last.value = <<<<1, 2, 3>>, <<4, 5, 6>>>>

\* C8: after a successful parse, data either returns or raises the
\* TranslationError; no other exception leaves it.
C8_TwoOutcomes ==
    \A h \in Handles :
        (last.op = "data" /\ last.h = h /\ reader[h]._sections # None)
            => last.outcome \in {"return", "TranslationError"}

\* C9: a handle is released at most once, it is released exactly when its
\* reader is destroyed, only __del__ releases it, and no decoder call is
\* made on a released handle.
C9_ReleasedOnce ==
    /\ [](\A h \in Handles :
            /\ released[h] <= 1
            /\ released[h] = 1 <=> reader[h].state = "dead")
    /\ [][\A h \in Handles :
            /\ released'[h] # released[h]
                 => /\ last'.op = "del"
                    /\ last'.h = h
                    /\ reader[h].state = "alive"
            /\ (released[h] >= 1 /\ last'.tick # last.tick /\ last'.h = h)
                 => /\ last'.calls = <<>>
                    /\ last'.keys = NoKeys
         ]_vars

\* C9, witness: every reader is destroyed and every handle released once:
\* one reader never parsed, one after a parse that raised.
C9_Witness ==
    /\ \A h \in Handles : released[h] = 1 /\ reader[h].state = "dead"
    /\ nparsed[1] = 0
    /\ ~failed[1]
    /\ failed[2]

\* C10: a sections call that raises leaves self._sections unset and stores
\* no mapping, and a sections call after it parses again from the first
\* key: it makes a new key iterator and repeats the calls of the failed run.
C10_AllOrNothing ==
    [][\A h \in Handles :
         /\ (last'.tick # last.tick /\ last'.h = h
                /\ last'.op = "sections"
                /\ last'.outcome = "GribInternalError")
              => /\ reader'[h]._sections = None
                 /\ objs' = objs
         /\ (last.op = "sections" /\ last.h = h
                /\ last.outcome = "GribInternalError"
                /\ last'.tick # last.tick /\ last'.h = h
                /\ last'.op = "sections")
              => /\ last'.keys.iter_new = 1
                 /\ last'.keys = last.keys
                 /\ last'.calls = last.calls
                 /\ last'.outcome = "GribInternalError"
      ]_vars

\* C10, witness: a second sections call in a row that raised, at the third
\* key of the stream.
C10_Witness ==
    /\ last.op = "sections"
    /\ last.outcome = "GribInternalError"
    /\ last.keys.iter_next = 3
    /\ last.tick = 1
    /\ ~reader[1].view
    /\ reader[1]._sections = None

\* C11: building the reader and building the view make no decoder call, no
\* key iterator call, raise nothing and touch no mapping; a data call that
\* raises the TranslationError on a reader that has its mapping leaves the
\* reference and the mapping as they were, and a sections call after it gives
\* back that same mapping without a decoder call.
C11_ValidationOnlyInData ==
    [][\A h \in Handles :
         /\ (last'.tick # last.tick /\ last'.h = h
                /\ last'.op \in {"RawGribMessage", "GribMessage"})
              => /\ last'.outcome = "return"
                 /\ last'.calls = <<>>
                 /\ last'.keys = NoKeys
                 /\ reader'[h]._sections = reader[h]._sections
                 /\ objs' = objs
         /\ (last'.tick # last.tick /\ last'.h = h
                /\ last'.op = "data"
                /\ last'.outcome = "TranslationError"
                /\ reader[h]._sections # None)
              => /\ reader'[h]._sections = reader[h]._sections
                 /\ objs' = objs
         /\ (last.op = "data" /\ last.h = h
                /\ last.outcome = "TranslationError"
                /\ last'.tick # last.tick /\ last'.h = h
                /\ last'.op = "sections")
              => /\ last'.outcome = "return"
                 /\ last'.value = reader[h]._sections
                 /\ last'.value # None
                 /\ last'.calls = <<>>
                 /\ objs' = objs
      ]_vars

\* C11, witness: data raised the TranslationError on a reader whose mapping
\* was already cached (the call parsed nothing), and the mapping is still
\* the first one made.
C11_Witness ==
    /\ last.op = "data"
    /\ last.outcome = "TranslationError"
    /\ last.calls = <<>>
    /\ last.keys = NoKeys
    /\ reader[1]._sections = 1
    /\ Len(objs) = 1

\* The value the decoder holds for the key named key of the message of h.
Decoded(h, key) ==
    msg[h][CHOOSE i \in 1..Len(msg[h]) : msg[h][i].name = key].val

\* C12: a write of the caller to the grid changes no mapping of the reader,
\* and every grid data returns is made of the values the decoder gave for
\* codedValues, whatever the caller wrote before.
C12_NoAlias ==
    /\ [][\A h \in Handles :
            (last'.tick # last.tick /\ last'.h = h /\ last'.op = "write")
                => objs' = objs
         ]_vars
    /\ [](\A h \in Handles :
            (last.op = "data" /\ last.h = h /\ last.outcome = "return")
                => \A j \in 1..Len(last.value) :
                      \A i \in 1..Len(last.value[j]) :
                          last.value[j][i]
                              = Decoded(h, "codedValues")
                                    [(j - 1) * Len(last.value[j]) + i])

\* C13: the section numbers of a returned mapping are 0, the numbers of the
\* 'section<N>Length' keys of the stream, and 8 exactly when the stream has
\* the key 7777.
C13_SectionNumbers ==
    \A h \in Handles :
        reader[h]._sections # None =>
            OdKeys(Cached(h))
                = Encoded(msg[h])
                    \cup (IF HasTerminator(msg[h]) THEN {8} ELSE {})

\* C14: a boundary key that decodes with a value is an item of the section
\* it opens in the returned mapping, and of no other section.
C14_BoundaryKeyInItsSection ==
    \A h \in Handles :
        reader[h]._sections # None =>
            \A i \in 1..Len(msg[h]) :
                (IsBoundary(msg[h][i]) /\ Stored(msg[h][i]))
                  => /\ \E p \in Places(Cached(h)) :
                           /\ SectionOf(Cached(h), p)
                                 = BoundaryNumber(msg[h][i])
                           /\ Item(Cached(h), p).k = msg[h][i].name
                     /\ \A p \in Places(Cached(h)) :
                           Item(Cached(h), p).pos = i
                             => SectionOf(Cached(h), p)
                                  = BoundaryNumber(msg[h][i])

\* The greatest and the least element of a set of places of a stream.
Max(S) == CHOOSE x \in S : \A y \in S : y <= x

Min(S) == CHOOSE x \in S : \A y \in S : x <= y

\* The places of the stream m where the key named key occurs with n as the
\* detected section number.
Occurrences(m, n, key) ==
    {j \in 1..Len(m) : m[j].name = key /\ Detected(m, j) = n}

\* The run of place p of the stream m: the places reached from p over keys
\* that all have the detected section number of p.  No key of a run makes
\* the loop start a new dictionary once a key of the run is stored.
Run(m, p) ==
    {j \in 1..Len(m) :
        \A t \in (IF j <= p THEN j..p ELSE p..j) :
            Detected(m, t) = Detected(m, p)}

\* C15 as stated: in every returned section the items are in the order in
\* which their key names first occur in the stream for that section number,
\* and each item was written by the last occurrence of its name for that
\* section number.
C15_FirstEncountered ==
    \A h \in Handles :
        reader[h]._sections # None =>
            \A n \in 1..Len(Cached(h)) :
                LET d == Cached(h)[n].v
                    num == Cached(h)[n].k
                IN  /\ \A a \in 1..Len(d) : \A b \in 1..Len(d) :
                          a < b =>
                            Min(Occurrences(msg[h], num, d[a].k))
                              < Min(Occurrences(msg[h], num, d[b].k))
                    /\ \A a \in 1..Len(d) :
                          d[a].pos = Max(Occurrences(msg[h], num, d[a].k))

\* C15, amended: every item of a returned section was written by a stored
\* key occurrence with that section number, all items of the section come
\* from one run of the stream, no key with that section number is stored
\* after that run, the items are in the order in which their key names are
\* first stored in the run, and each item was written by the last stored
\* occurrence of its name in the run.
C15_InsertionOrder ==
    \A h \in Handles :
        reader[h]._sections # None =>
            \A n \in 1..Len(Cached(h)) :
                LET d == Cached(h)[n].v
                    num == Cached(h)[n].k
                    m == msg[h]
                    run == IF d = <<>> THEN {} ELSE Run(m, d[1].pos)
                    stored(a) ==
                        {j \in run : m[j].name = d[a].k /\ Stored(m[j])}
                IN  /\ \A a \in 1..Len(d) :
                          /\ Detected(m, d[a].pos) = num
                          /\ d[a].pos \in stored(a)
                          /\ d[a].pos = Max(stored(a))
                    /\ \A j \in 1..Len(m) :
                          (d # <<>> /\ j > d[1].pos /\ Stored(m[j])
                              /\ Detected(m, j) = num)
                            => j \in run
                    /\ \A a \in 1..Len(d) : \A b \in 1..Len(d) :
                          a < b => Min(stored(a)) < Min(stored(b))

\* C15, witness: the stream section1Length, numberOfSection, 7777,
\* section1Length, discipline, numberOfSection.  The returned section 1 is
\* built from the second run of section 1 and has discipline ahead of
\* numberOfSection, the order in which that run stored them.
C15_Witness ==
    /\ reader[1]._sections # None
    /\ [i \in 1..Len(msg[1]) |-> msg[1][i].name]
          = <<"section1Length", "numberOfSection", "7777",
              "section1Length", "discipline", "numberOfSection">>
    /\ OdHas(Cached(1), 1)
    /\ [i \in 1..Len(OdGet(Cached(1), 1)) |-> OdGet(Cached(1), 1)[i].k]
          = <<"section1Length", "discipline", "numberOfSection">>
    /\ [i \in 1..Len(OdGet(Cached(1), 1)) |-> OdGet(Cached(1), 1)[i].pos]
          = <<4, 5, 6>>

\* The last operation ran a parse of the message of h.
Parsed(h) ==
    /\ last.op \in {"sections", "data"}
    /\ last.h = h
    /\ last.keys.iter_new = 1

\* The keys the parse of the last operation took from the iterator.
Taken(h) ==
    IF last.keys.iter_next > Len(msg[h]) THEN Len(msg[h])
    ELSE last.keys.iter_next

\* Call c of the last operation is the first one for its key occurrence.
IsFirstCall(c) == c = 1 \/ last.calls[c - 1].at # last.calls[c].at

\* C16: in a parse every key taken from the iterator but numberOfSection
\* gets a decode call, numberOfSection gets none, and the first call for a
\* key is the array decode for codedValues, values and pv, the scalar decode
\* with type=int for the two fixed surface keys, and the default scalar
\* decode for any other key.
C16_FirstDecodeByName ==
    \A h \in Handles :
        Parsed(h) =>
            /\ \A i \in 1..Taken(h) :
                  msg[h][i].name # "numberOfSection"
                    <=> \E c \in 1..Len(last.calls) : last.calls[c].at = i
            /\ \A c \in 1..Len(last.calls) :
                  /\ last.calls[c].at \in 1..Taken(h)
                  /\ last.calls[c].key = msg[h][last.calls[c].at].name
                  /\ IsFirstCall(c) =>
                        last.calls[c].call =
                            CASE last.calls[c].key
                                   \in {"codedValues", "values", "pv"}
                                   -> "grib_get_array"
                              [] last.calls[c].key
                                   \in {"typeOfFirstFixedSurface",
                                        "typeOfSecondFixedSurface"}
                                   -> "grib_get_int"
                              [] OTHER -> "grib_get"

\* C16, witness: the parse of the stream typeOfSecondFixedSurface, pv made
\* the calls grib_get(type=int) and grib_get_array, one for each key.
C16_Witness ==
    /\ Parsed(1)
    /\ last.outcome = "return"
    /\ last.calls
          = << [at |-> 1, key |-> "typeOfSecondFixedSurface",
                call |-> "grib_get_int"],
               [at |-> 2, key |-> "pv", call |-> "grib_get_array"] >>

\* C17: a second call for a key occurrence is an array decode, it follows a
\* scalar decode that answered TOO_SMALL for a key outside the fixed array
\* set, and no third call follows; an error answer of the second call, or an
\* answer of the first call that is an error other than TOO_SMALL and
\* NOT_FOUND, ends the operation with that error at that key.
C17_RetryRule ==
    \A h \in Handles :
        Parsed(h) =>
            /\ \A c \in 1..Len(last.calls) :
                  ~IsFirstCall(c) =>
                    /\ last.calls[c].call = "grib_get_array"
                    /\ IsFirstCall(c - 1)
                    /\ last.calls[c - 1].call \in {"grib_get", "grib_get_int"}
                    /\ last.calls[c].key \notin {"codedValues", "values", "pv"}
                    /\ msg[h][last.calls[c].at].first = TOO_SMALL
            /\ \A c \in 1..Len(last.calls) :
                  LET e == msg[h][last.calls[c].at]
                      failure ==
                          IF IsFirstCall(c)
                          THEN IF e.first \in {OK, TOO_SMALL, NOT_FOUND}
                               THEN OK ELSE e.first
                          ELSE e.retry
                  IN  failure # OK =>
                        /\ c = Len(last.calls)
                        /\ last.outcome = "GribInternalError"
                        /\ last.err = failure
                        /\ last.keys.iter_next = last.calls[c].at

\* C18: in every returned mapping, each key occurrence that is stored by the
\* parse has an item of its name in the section detected for it.
C18_NoKeyLost ==
    \A h \in Handles :
        reader[h]._sections # None =>
            \A i \in 1..Len(msg[h]) :
                Stored(msg[h][i]) =>
                    \E p \in Places(Cached(h)) :
                        /\ SectionOf(Cached(h), p) = Detected(msg[h], i)
                        /\ Item(Cached(h), p).k = msg[h][i].name

\* C19: an operation deletes every key iterator it creates, whether its
\* parse took every key of the stream or was ended by an error.
C19_IteratorDeleted ==
    \A h \in Handles :
        (last.op \in {"sections", "data"} /\ last.h = h)
            => last.keys.iter_del = last.keys.iter_new

====
